---- MODULE Spec2Model ----
(***************************************************************************)
(* The authenticated data-fetch layer of the SuperCoach dashboard:         *)
(* localStorage session keys, isAuthenticated, refreshAuthToken,           *)
(* authenticatedFetch, makeAuthenticatedAPICall and the React hooks built   *)
(* on them (useStudents, useConversations, useSuperCoaches,                 *)
(* useCreateStudent), with the login handler of AuthPage, the URL the       *)
(* students hook builds from its filters, and the create-student dialog     *)
(* (CreateStudentModal: validateForm, handleSubmit).                        *)
(*                                                                         *)
(* JavaScript strings are sequences of one-character strings, so that      *)
(* String(n), parseInt(s), template literals and String.includes are       *)
(* computed character by character.  JavaScript numbers are records        *)
(* [nan, v] so that NaN compares as it does in JavaScript.                 *)
(*                                                                         *)
(* One step of the model is one task of the event loop: the arrival of a   *)
(* network response (or of a parsed body) followed by all the synchronous   *)
(* code and promise reactions up to the next network await.                *)
(***************************************************************************)
EXTENDS Integers, Sequences, FiniteSets, TLC

VARIABLES
    now,      \* Date.now(), in milliseconds
    store,    \* localStorage: key -> string, or Null when the key is absent
    reloads,  \* number of window.location.reload() calls so far
    issued,   \* server side: number of token pairs issued so far
    calls,    \* the in-flight / finished makeAuthenticatedAPICall invocations
    hooks,    \* the React state of each hook instance
    probe,    \* input and result of a pure function applied on its own
    modal     \* the state of CreateStudentModal and the POSTs it has sent

vars == <<now, store, reloads, issued, calls, hooks, probe, modal>>

----------------------------------------------------------------------------
(* Bounds of the model *)

\* the clock advances at most this many seconds
MaxTicks == 1
\* the server issues at most this many token pairs (logins and refreshes)
MaxIssued == 2
\* a 200 response of a list endpoint carries at most this many records
MaxRecords == 1

\* the gateway calls of one behaviour: two, which may overlap
Calls == {1, 2}

----------------------------------------------------------------------------
(* JavaScript values *)

\* null (localStorage.getItem of an absent key, useState(null))
Null == <<"#null">>
\* undefined (a field a JSON body does not have)
Undefined == <<"#undefined">>

Digits == <<"0", "1", "2", "3", "4", "5", "6", "7", "8", "9">>
DigitSet == {Digits[i] : i \in 1..10}
DigitVal(c) == (CHOOSE i \in 1..10 : Digits[i] = c) - 1
Whitespace == {" "}

\* JavaScript truthiness of a string | null | undefined
Truthy(v) == v # Null /\ v # Undefined /\ v # <<>>

\* a number is NaN or the decimal v / 10^e, with e as small as possible
Num(n) == [nan |-> FALSE, v |-> n, e |-> 0]
NaN == [nan |-> TRUE, v |-> 0, e |-> 0]

RECURSIVE Pow10(_)
Pow10(k) == IF k = 0 THEN 1 ELSE 10 * Pow10(k - 1)

\* the number v / 10^e
RECURSIVE Dec(_, _)
Dec(v, e) ==
    IF e > 0 /\ v % 10 = 0 THEN Dec(v \div 10, e - 1)
    ELSE [nan |-> FALSE, v |-> v, e |-> e]

Max(i, j) == IF i > j THEN i ELSE j
\* a < b on numbers: false when either side is NaN
NumLt(a, b) == ~a.nan /\ ~b.nan /\ a.v * Pow10(b.e) < b.v * Pow10(a.e)
NumPlus(a, b) ==
    IF a.nan \/ b.nan THEN NaN
    ELSE LET e == Max(a.e, b.e)
         IN  Dec(a.v * Pow10(e - a.e) + b.v * Pow10(e - b.e), e)
NumTimes(a, b) == IF a.nan \/ b.nan THEN NaN ELSE Dec(a.v * b.v, a.e + b.e)

StrUndefined ==
    <<"u", "n", "d", "e", "f", "i", "n", "e", "d">>

StrNull ==
    <<"n", "u", "l", "l">>

StrNaN ==
    <<"N", "a", "N">>

RECURSIVE NatToStr(_)
NatToStr(n) ==
    IF n < 10 THEN <<Digits[n + 1]>>
    ELSE NatToStr(n \div 10) \o <<Digits[(n % 10) + 1]>>

\* the k decimal digits of n, with leading zeros
RECURSIVE PadDigits(_, _)
PadDigits(n, k) ==
    IF k = 0 THEN <<>>
    ELSE PadDigits(n \div 10, k - 1) \o <<Digits[(n % 10) + 1]>>

\* String(x) for a number x >= 0: the integer part, then the fraction if any
StringAbs(v, e) ==
    IF e = 0 THEN NatToStr(v)
    ELSE NatToStr(v \div Pow10(e)) \o <<".">> \o PadDigits(v % Pow10(e), e)

\* String(x) for a number x within the range printed without an exponent
String(x) ==
    IF x.nan THEN StrNaN
    ELSE IF x.v < 0 THEN <<"-">> \o StringAbs(-x.v, x.e)
    ELSE StringAbs(x.v, x.e)

\* the string conversion localStorage.setItem applies to its value
ToStr(v) ==
    IF v = Undefined THEN StrUndefined
    ELSE IF v = Null THEN StrNull
    ELSE v

RECURSIVE TrimStart(_)
TrimStart(s) ==
    IF s # <<>> /\ s[1] \in Whitespace THEN TrimStart(Tail(s)) ELSE s

RECURSIVE LeadingDigits(_)
LeadingDigits(s) ==
    IF s # <<>> /\ s[1] \in DigitSet THEN 1 + LeadingDigits(Tail(s)) ELSE 0

RECURSIVE DigitsVal(_)
DigitsVal(s) ==
    IF s = <<>> THEN 0
    ELSE 10 * DigitsVal(SubSeq(s, 1, Len(s) - 1)) + DigitVal(s[Len(s)])

\* a faulty variant of parseInt: a sign is not accepted
parseIntNoSign(s) ==
    LET t == TrimStart(s)
        k == LeadingDigits(t)
    IN  IF k = 0 THEN NaN ELSE Num(DigitsVal(SubSeq(t, 1, k)))

\* parseInt(s): leading whitespace, an optional sign, then the longest run
\* of decimal digits; NaN when there is no digit
parseInt(s) ==
    LET t == TrimStart(s)
        signed == t # <<>> /\ t[1] \in {"-", "+"}
        u == IF signed THEN Tail(t) ELSE t
        k == LeadingDigits(u)
        m == DigitsVal(SubSeq(u, 1, k))
    IN  IF k = 0 THEN NaN
        ELSE IF signed /\ t[1] = "-" THEN Num(-m)
        ELSE Num(m)

\* s.includes(sub)
Includes(s, sub) ==
    \E i \in 1..(Len(s) - Len(sub) + 1) : SubSeq(s, i, i + Len(sub) - 1) = sub

----------------------------------------------------------------------------
(* Error messages and the texts they are matched against *)

MsgAuthRequired ==
    <<"A", "u", "t", "h", "e", "n", "t", "i", "c", "a", "t", "i", "o", "n",
      " ", "r", "e", "q", "u", "i", "r", "e", "d">>

MsgAuthFailed ==
    <<"A", "u", "t", "h", "e", "n", "t", "i", "c", "a", "t", "i", "o", "n",
      " ", "f", "a", "i", "l", "e", "d">>

MsgSessionExpired ==
    <<"Y", "o", "u", "r", " ", "s", "e", "s", "s", "i", "o", "n", " ", "h",
      "a", "s", " ", "e", "x", "p", "i", "r", "e", "d", ".", " ", "P", "l",
      "e", "a", "s", "e", " ", "l", "o", "g", " ", "i", "n", " ", "a", "g",
      "a", "i", "n", ".">>

MsgInvalidCredentials ==
    <<"I", "n", "v", "a", "l", "i", "d", " ", "a", "u", "t", "h", "e", "n",
      "t", "i", "c", "a", "t", "i", "o", "n", " ", "c", "r", "e", "d", "e",
      "n", "t", "i", "a", "l", "s", ".", " ", "P", "l", "e", "a", "s", "e",
      " ", "l", "o", "g", " ", "i", "n", " ", "a", "g", "a", "i", "n", ".">>

MsgAuthFailedLogin ==
    <<"A", "u", "t", "h", "e", "n", "t", "i", "c", "a", "t", "i", "o", "n",
      " ", "f", "a", "i", "l", "e", "d", ".", " ", "P", "l", "e", "a", "s",
      "e", " ", "l", "o", "g", " ", "i", "n", " ", "a", "g", "a", "i", "n",
      ".">>

MsgForbidden ==
    <<"Y", "o", "u", " ", "d", "o", " ", "n", "o", "t", " ", "h", "a", "v",
      "e", " ", "p", "e", "r", "m", "i", "s", "s", "i", "o", "n", " ", "t",
      "o", " ", "a", "c", "c", "e", "s", "s", " ", "t", "h", "i", "s", " ",
      "r", "e", "s", "o", "u", "r", "c", "e", ".">>

MsgNotFound ==
    <<"T", "h", "e", " ", "r", "e", "q", "u", "e", "s", "t", "e", "d", " ",
      "r", "e", "s", "o", "u", "r", "c", "e", " ", "w", "a", "s", " ", "n",
      "o", "t", " ", "f", "o", "u", "n", "d", ".">>

MsgRateLimited ==
    <<"T", "o", "o", " ", "m", "a", "n", "y", " ", "r", "e", "q", "u", "e",
      "s", "t", "s", ".", " ", "P", "l", "e", "a", "s", "e", " ", "t", "r",
      "y", " ", "a", "g", "a", "i", "n", " ", "l", "a", "t", "e", "r", ".">>

MsgServerError ==
    <<"S", "e", "r", "v", "e", "r", " ", "e", "r", "r", "o", "r", ".", " ",
      "P", "l", "e", "a", "s", "e", " ", "t", "r", "y", " ", "a", "g", "a",
      "i", "n", " ", "l", "a", "t", "e", "r", ".">>

MsgRequestFailed ==
    <<"R", "e", "q", "u", "e", "s", "t", " ", "f", "a", "i", "l", "e", "d",
      " ", "w", "i", "t", "h", " ", "s", "t", "a", "t", "u", "s", " ">>

MsgFailedToFetch ==
    <<"F", "a", "i", "l", "e", "d", " ", "t", "o", " ", "f", "e", "t", "c",
      "h">>

MsgJsonSyntax ==
    <<"U", "n", "e", "x", "p", "e", "c", "t", "e", "d", " ", "e", "n", "d",
      " ", "o", "f", " ", "J", "S", "O", "N", " ", "i", "n", "p", "u", "t">>

TextStudentNotFound ==
    <<"S", "t", "u", "d", "e", "n", "t", " ", "n", "o", "t", " ", "f", "o",
      "u", "n", "d">>

StatusStuck ==
    <<"s", "t", "u", "c", "k">>

----------------------------------------------------------------------------
(* Session store: localStorage *)

Keys == {"access_token", "refresh_token", "coach", "expires_at"}

getItem(ls, key) == ls[key]
setItem(ls, key, value) == [ls EXCEPT ![key] = ToStr(value)]
removeItem(ls, key) == [ls EXCEPT ![key] = Null]

EmptyStorage == [k \in Keys |-> Null]

getAuthToken(ls) == getItem(ls, "access_token")

getRefreshToken(ls) == getItem(ls, "refresh_token")

\* a faulty variant of isAuthenticated: the expiry instant itself still counts as valid
isAuthenticatedInclusive(ls, t) ==
    LET token == getAuthToken(ls)
        expiresAt == getItem(ls, "expires_at")
    IN  IF ~Truthy(token) \/ ~Truthy(expiresAt) THEN FALSE
        ELSE ~NumLt(parseInt(expiresAt), Num(t)) /\ ~parseInt(expiresAt).nan

\* isAuthenticated() evaluated on storage ls at clock value t
isAuthenticated(ls, t) ==
    LET token == getAuthToken(ls)
        expiresAt == getItem(ls, "expires_at")
    IN  IF ~Truthy(token) \/ ~Truthy(expiresAt) THEN FALSE
        ELSE NumLt(Num(t), parseInt(expiresAt))

clearAuthData(ls) ==
    removeItem(removeItem(removeItem(removeItem(ls,
        "access_token"), "refresh_token"), "coach"), "expires_at")

\* a faulty variant of redirectToLogin: the page reloads but the session is kept
redirectToLoginKeepsSession(ls) == ls

\* redirectToLogin(): the storage it leaves; the reload is counted by the caller
redirectToLogin(ls) == clearAuthData(ls)

\* the Authorization header getAuthHeaders() builds: the bearer token, or
\* Undefined when no header is set
getAuthHeaders(ls) ==
    LET token == getAuthToken(ls)
    IN  IF Truthy(token) THEN token ELSE Undefined

handleAuthError(status, errorText) ==
    CASE status = 401 ->
            IF Includes(errorText, <<"e", "x", "p", "i", "r", "e", "d">>)
            THEN MsgSessionExpired
            ELSE IF Includes(errorText, <<"i", "n", "v", "a", "l", "i", "d">>)
            THEN MsgInvalidCredentials
            ELSE MsgAuthFailedLogin
      [] status = 403 -> MsgForbidden
      [] status = 404 -> MsgNotFound
      [] status = 429 -> MsgRateLimited
      [] status = 500 -> MsgServerError
      [] OTHER -> MsgRequestFailed \o String(Num(status)) \o <<".", " ">> \o errorText

----------------------------------------------------------------------------
(* The server, as far as the client sees it *)

\* expires_in * 1000 (milliseconds per second of token lifetime)
MsPerSec == 1000

\* the token lifetimes, in seconds, a login or refresh response may carry
ExpiresIn == {1}

\* the g-th access token and refresh token the server issues
AccessTokenOf(g) == <<"a">> \o NatToStr(g)
RefreshTokenOf(g) == <<"r">> \o NatToStr(g)
\* JSON.stringify(loginData.coach), abbreviated to the coach id
CoachJson(g) == <<"c">> \o NatToStr(g)

\* the body of a successful login or refresh response
TokenBody(g, e) ==
    [access_token |-> AccessTokenOf(g), refresh_token |-> RefreshTokenOf(g),
     expires_in |-> Num(e), parses |-> TRUE]
\* a 2xx body that is JSON but has none of the token fields, such as {}
EmptyBody ==
    [access_token |-> Undefined, refresh_token |-> Undefined,
     expires_in |-> NaN, parses |-> TRUE]
\* a 2xx body response.json() rejects
UnparsableBody ==
    [access_token |-> Undefined, refresh_token |-> Undefined,
     expires_in |-> NaN, parses |-> FALSE]

\* what fetch() of a resource URL resolves to: a rejection (status 0) or a
\* response with an HTTP status
Rejected == 0
Statuses == {200, 401, 404, 400}
Outcomes == {Rejected} \cup Statuses
IsOk(status) == status >= 200 /\ status <= 299

\* error bodies response.text() yields
ErrorTexts == {<<>>, TextStudentNotFound}

\* the filters useStudents is called with
NoNum == [def |-> FALSE, v |-> 0]
NoFilters == [course_id |-> NoNum, status |-> Undefined, search |-> Undefined]
FilterStuck == [course_id |-> NoNum, status |-> StatusStuck, search |-> Undefined]
FilterSets == {NoFilters, FilterStuck}

\* the n records a list endpoint returns for a request with these filters,
\* each marked with the status filter it was selected by
ServerRecords(resource, filters, n) ==
    [i \in 1..n |-> [id |-> i, of |-> resource, matched |-> filters.status]]

----------------------------------------------------------------------------
(* Hook instances *)

\* hooks that fetch in an effect, and the mutation hook
FetchHooks == {"useStudents", "useConversations", "useSuperCoaches"}
FallbackHooks == {"useConversations", "useSuperCoaches"}
MutationHooks == {"useCreateStudent"}
Hooks == FetchHooks \cup MutationHooks

\* the resource a hook requests
ResourceOf(h) ==
    CASE h = "useStudents" -> "students"
      [] h = "useConversations" -> "conversations"
      [] h = "useSuperCoaches" -> "supercoaches"
      [] OTHER -> "students"

NullData == [isNull |-> TRUE, items |-> <<>>]
Data(items) == [isNull |-> FALSE, items |-> items]

\* the built-in datasets, abbreviated to the ids of their records
mockSuperCoaches ==
    [i \in 1..3 |-> [id |-> i, of |-> "mockSuperCoaches", matched |-> Undefined]]
mockConversations ==
    [i \in 1..3 |-> [id |-> i, of |-> "mockConversations", matched |-> Undefined]]
MockOf(h) == IF h = "useSuperCoaches" THEN mockSuperCoaches ELSE mockConversations

\* students.map(...) of useStudents: the server's fields are kept and the
\* frontend fields are added
TransformStudent(student) ==
    [id |-> student.id, of |-> student.of, matched |-> student.matched,
     enrolledCourses |-> <<>>, progress |-> <<>>]

Transformed(h, items) ==
    IF h = "useStudents"
    THEN [i \in 1..Len(items) |-> TransformStudent(items[i])]
    ELSE items

\* useState initial values; an effect hook has not run its effect yet
InitHook(h) ==
    [data |-> NullData,
     loading |-> (h \in FetchHooks),
     error |-> Null,
     mounted |-> IF h \in FetchHooks THEN "pending" ELSE "yes",
     filters |-> NoFilters,
     lateSets |-> 0]

\* k state setters called with the values of next: the state they produce
\* while the component is mounted; after unmount the calls are only counted
SetState(hk, next, k) ==
    IF hk.mounted = "gone"
    THEN [hk EXCEPT !.lateSets = @ + k]
    ELSE next

\* setLoading(true); setError(null) at the start of a fetch or mutation
HookStarted(hk) ==
    SetState(hk, [hk EXCEPT !.loading = TRUE, !.error = Null], 2)

\* a faulty variant of the failure test of the fallback hooks: only '404' is looked for
IsNotFoundMessageOnly404(errorMessage) ==
    Includes(errorMessage, <<"4", "0", "4">>)

\* errorMessage.includes('404') || errorMessage.includes('not found')
IsNotFoundMessage(errorMessage) ==
    \/ Includes(errorMessage, <<"4", "0", "4">>)
    \/ Includes(errorMessage, <<"n", "o", "t", " ", "f", "o", "u", "n", "d">>)

\* a faulty variant of the then-branch: loading is not reset
HookSucceededStaysLoading(h, hk, items) ==
    IF h \in FetchHooks
    THEN SetState(hk, [hk EXCEPT !.data = Data(Transformed(h, items))], 1)
    ELSE hk

\* the then-branch and finally of a fetch: setData(...); setLoading(false)
HookSucceeded(h, hk, items) ==
    IF h \in FetchHooks
    THEN SetState(hk, [hk EXCEPT !.data = Data(Transformed(h, items)),
                                 !.loading = FALSE], 2)
    ELSE SetState(hk, [hk EXCEPT !.loading = FALSE], 1)

\* a faulty variant of the catch-branch: a failure also drops the data
HookFailedDropsData(h, hk, errorMessage) ==
    SetState(hk, [hk EXCEPT !.data = NullData, !.error = errorMessage,
                            !.loading = FALSE], 3)

\* the catch-branch and finally
HookFailed(h, hk, errorMessage) ==
    IF h \in FallbackHooks /\ IsNotFoundMessage(errorMessage)
    THEN SetState(hk, [hk EXCEPT !.data = Data(MockOf(h)), !.error = Null,
                                 !.loading = FALSE], 3)
    ELSE SetState(hk, [hk EXCEPT !.error = errorMessage, !.loading = FALSE], 2)

\* a faulty variant of the else-branch: no hook falls back to its dataset
HookNotAuthenticatedNoFallback(h, hk) ==
    SetState(hk, [hk EXCEPT !.loading = FALSE, !.error = MsgAuthRequired], 2)

\* the else-branch of an effect: the session is not valid at mount
HookNotAuthenticated(h, hk) ==
    IF h \in FallbackHooks
    THEN SetState(hk, [hk EXCEPT !.data = Data(MockOf(h)), !.loading = FALSE], 2)
    ELSE SetState(hk, [hk EXCEPT !.loading = FALSE, !.error = MsgAuthRequired], 2)

----------------------------------------------------------------------------
(* Request URLs *)

ApiBaseUrl ==
    <<"h", "t", "t", "p", ":", "/", "/", "l", "o", "c", "a", "l", "h", "o",
      "s", "t", ":", "3", "1", "0", "0">>

PathStudents ==
    <<"/", "a", "p", "i", "/", "s", "t", "u", "d", "e", "n", "t", "s">>

PathConversations ==
    <<"/", "a", "p", "i", "/", "c", "o", "n", "v", "e", "r", "s", "a", "t",
      "i", "o", "n", "s">>

PathSuperCoaches ==
    <<"/", "a", "p", "i", "/", "s", "u", "p", "e", "r", "c", "o", "a", "c",
      "h", "e", "s">>

ParamCourseId ==
    <<"c", "o", "u", "r", "s", "e", "_", "i", "d", "=">>

ParamStatus ==
    <<"s", "t", "a", "t", "u", "s", "=">>

ParamSearch ==
    <<"s", "e", "a", "r", "c", "h", "=">>

StatusNew ==
    <<"n", "e", "w">>

SearchAmpersand ==
    <<"a", "&", "b">>

SearchSpace ==
    <<"x", " ", "y">>

\* the characters encodeURIComponent escapes, among those the filters use
PercentEncoded(ch) ==
    CASE ch = " " -> <<"%", "2", "0">>
      [] ch = "&" -> <<"%", "2", "6">>
      [] ch = "=" -> <<"%", "3", "D">>
      [] ch = "?" -> <<"%", "3", "F">>
      [] OTHER -> <<ch>>

RECURSIVE encodeURIComponent(_)
encodeURIComponent(s) ==
    IF s = <<>> THEN <<>>
    ELSE PercentEncoded(Head(s)) \o encodeURIComponent(Tail(s))

\* parts.join(sep)
RECURSIVE Join(_, _)
Join(parts, sep) ==
    IF Len(parts) = 0 THEN <<>>
    ELSE IF Len(parts) = 1 THEN parts[1]
    ELSE parts[1] \o sep \o Join(Tail(parts), sep)

\* a course_id filter that is given
CourseId(n) == [def |-> TRUE, v |-> n]

\* a faulty variant of queryParams: the status parameter is pushed whether or
\* not the filter is given
QueryParamsAlwaysStatus(filters) ==
    (IF filters.course_id.def /\ filters.course_id.v # 0
     THEN <<ParamCourseId \o String(Num(filters.course_id.v))>> ELSE <<>>)
    \o <<ParamStatus \o encodeURIComponent(ToStr(filters.status))>>
    \o (IF Truthy(filters.search)
        THEN <<ParamSearch \o encodeURIComponent(filters.search)>> ELSE <<>>)

\* queryParams of fetchStudents: one entry per filter that is truthy
QueryParams(filters) ==
    (IF filters.course_id.def /\ filters.course_id.v # 0
     THEN <<ParamCourseId \o String(Num(filters.course_id.v))>> ELSE <<>>)
    \o (IF Truthy(filters.status)
        THEN <<ParamStatus \o encodeURIComponent(filters.status)>> ELSE <<>>)
    \o (IF Truthy(filters.search)
        THEN <<ParamSearch \o encodeURIComponent(filters.search)>> ELSE <<>>)

\* the URL fetchStudents requests for these filters
StudentsUrl(filters) ==
    LET url == ApiBaseUrl \o PathStudents
        queryParams == QueryParams(filters)
    IN  IF Len(queryParams) > 0
        THEN url \o <<"?">> \o Join(queryParams, <<"&">>)
        ELSE url

\* the URL hook h requests
UrlOf(h, f) ==
    CASE h = "useStudents" -> StudentsUrl(f)
      [] h = "useConversations" -> ApiBaseUrl \o PathConversations
      [] h = "useSuperCoaches" -> ApiBaseUrl \o PathSuperCoaches
      [] OTHER -> ApiBaseUrl \o PathStudents

----------------------------------------------------------------------------
(* Gateway calls *)

NoStatus == -1

IdleCall ==
    [pc |-> "idle", hook |-> "none", filters |-> NoFilters,
     sent |-> 0, refreshes |-> 0, auth |-> Undefined, status |-> NoStatus,
     first |-> NoStatus, refreshed |-> "none", retry |-> NoStatus,
     text |-> <<>>, result |-> "pending", msg |-> Null, payload |-> <<>>,
     url |-> <<>>, refreshToken |-> Null, newToken |-> Undefined]

Free(c) == calls[c].pc = "idle"
\* the slot a new call takes: the lowest free one
FreeSlot(c) == Free(c) /\ \A d \in Calls : Free(d) => c <= d

\* fetch(url, {headers: {...getAuthHeaders(), ...}}): the request as sent
Sent(cr, ls) == [cr EXCEPT !.sent = @ + 1, !.auth = getAuthHeaders(ls)]

\* the call's promise settles: the hook's then/catch/finally run
Settle(c, cr, ok, msg, items, hs) ==
    LET h == cr.hook
    IN  /\ calls' = [calls EXCEPT ![c] =
                        [cr EXCEPT !.pc = "done",
                                   !.result = IF ok THEN "ok" ELSE "error",
                                   !.msg = msg, !.payload = items]]
        /\ hooks' = [hs EXCEPT ![h] =
                        IF ok THEN HookSucceeded(h, hs[h], items)
                        ELSE HookFailed(h, hs[h], msg)]

\* redirectToLogin() as a step: storage cleared and the page reload requested
Redirect ==
    /\ store' = redirectToLogin(store)
    /\ reloads' = reloads + 1

\* a faulty variant of the start of a call: with an invalid session and a
\* refresh token in the store, a refresh is attempted instead of the redirect
InvokeRefreshesExpired(c, h, f, hs) ==
    LET cr == [IdleCall EXCEPT !.hook = h, !.filters = f, !.url = UrlOf(h, f)]
    IN  /\ FreeSlot(c)
        /\ IF ~isAuthenticated(store, now) /\ ~Truthy(getRefreshToken(store))
           THEN /\ Redirect
                /\ Settle(c, cr, FALSE, MsgAuthRequired, <<>>, hs)
           ELSE IF ~isAuthenticated(store, now)
           THEN /\ calls' = [calls EXCEPT ![c] =
                               [cr EXCEPT !.pc = "refresh", !.refreshes = @ + 1,
                                          !.refreshToken = getRefreshToken(store)]]
                /\ hooks' = hs
                /\ UNCHANGED <<store, reloads>>
           ELSE /\ calls' = [calls EXCEPT ![c] = [Sent(cr, store) EXCEPT !.pc = "fetch1"]]
                /\ hooks' = hs
                /\ UNCHANGED <<store, reloads>>

\* makeAuthenticatedAPICall(url) from hook h, after the hook state hs was set:
\* authenticatedFetch checks the session and sends the first request
Invoke(c, h, f, hs) ==
    LET cr == [IdleCall EXCEPT !.hook = h, !.filters = f, !.url = UrlOf(h, f)]
    IN  /\ FreeSlot(c)
        /\ IF ~isAuthenticated(store, now)
           THEN /\ Redirect
                /\ Settle(c, cr, FALSE, MsgAuthRequired, <<>>, hs)
           ELSE /\ calls' = [calls EXCEPT ![c] = [Sent(cr, store) EXCEPT !.pc = "fetch1"]]
                /\ hooks' = hs
                /\ UNCHANGED <<store, reloads>>

----------------------------------------------------------------------------
(* CreateStudentModal *)

MsgNameRequired ==
    <<"N", "a", "m", "e", " ", "i", "s", " ", "r", "e", "q", "u", "i", "r",
      "e", "d">>

MsgNameTooShort ==
    <<"N", "a", "m", "e", " ", "m", "u", "s", "t", " ", "b", "e", " ", "a",
      "t", " ", "l", "e", "a", "s", "t", " ", "2", " ", "c", "h", "a", "r",
      "a", "c", "t", "e", "r", "s">>

MsgEmailRequired ==
    <<"E", "m", "a", "i", "l", " ", "i", "s", " ", "r", "e", "q", "u", "i",
      "r", "e", "d">>

MsgEmailInvalid ==
    <<"P", "l", "e", "a", "s", "e", " ", "e", "n", "t", "e", "r", " ", "a",
      " ", "v", "a", "l", "i", "d", " ", "e", "m", "a", "i", "l", " ", "a",
      "d", "d", "r", "e", "s", "s">>

MsgPhoneRequired ==
    <<"P", "h", "o", "n", "e", " ", "n", "u", "m", "b", "e", "r", " ", "i",
      "s", " ", "r", "e", "q", "u", "i", "r", "e", "d">>

MsgPhoneInvalid ==
    <<"P", "l", "e", "a", "s", "e", " ", "e", "n", "t", "e", "r", " ", "a",
      " ", "v", "a", "l", "i", "d", " ", "p", "h", "o", "n", "e", " ", "n",
      "u", "m", "b", "e", "r">>

MsgFailedToCreate ==
    <<"F", "a", "i", "l", "e", "d", " ", "t", "o", " ", "c", "r", "e", "a",
      "t", "e", " ", "s", "t", "u", "d", "e", "n", "t">>

MsgEmailTaken ==
    <<"E", "m", "a", "i", "l", " ", "a", "l", "r", "e", "a", "d", "y", " ",
      "r", "e", "g", "i", "s", "t", "e", "r", "e", "d">>

NameA ==
    <<"A">>

NameAl ==
    <<"A", "l">>

EmailValid ==
    <<"a", "@", "b", ".", "c", "o", "m">>

EmailNoDot ==
    <<"a", "@", "b">>

EmailLeadingSpace ==
    <<" ", "a", "@", "b", ".", "c", "o", "m">>

PhoneValid ==
    <<"5", "5", "5", "1", "2", "3", "4", "5", "6", "7">>

PhoneShort ==
    <<"5", "5", "5", " ", "1", "2", "3">>

\* the POST requests one behaviour of the modal sends, at most
MaxPosts == 2

\* what the user may type into the three fields
NameInputs == {<<>>, <<" ">>, NameA, NameAl}
EmailInputs == {<<>>, EmailNoDot, EmailLeadingSpace, EmailValid}
PhoneInputs == {<<>>, PhoneShort, PhoneValid}
Fields == {"name", "email", "phone"}
InputsOf(field) ==
    CASE field = "name" -> NameInputs
      [] field = "email" -> EmailInputs
      [] OTHER -> PhoneInputs

RECURSIVE TrimEnd(_)
TrimEnd(s) ==
    IF s # <<>> /\ s[Len(s)] \in Whitespace
    THEN TrimEnd(SubSeq(s, 1, Len(s) - 1)) ELSE s

\* s.trim()
Trim(s) == TrimEnd(TrimStart(s))

\* s.replace(/\s/g, '')
RECURSIVE RemoveWhitespace(_)
RemoveWhitespace(s) ==
    IF s = <<>> THEN <<>>
    ELSE IF Head(s) \in Whitespace THEN RemoveWhitespace(Tail(s))
    ELSE <<Head(s)>> \o RemoveWhitespace(Tail(s))

\* s matches [^\s@]+
NoSpaceNoAt(s) ==
    /\ Len(s) > 0
    /\ \A i \in 1..Len(s) : s[i] \notin Whitespace /\ s[i] # "@"

\* /^[^\s@]+@[^\s@]+\.[^\s@]+$/.test(s)
emailRegex(s) ==
    \E i, j \in 1..Len(s) :
        /\ i < j
        /\ s[i] = "@"
        /\ s[j] = "."
        /\ NoSpaceNoAt(SubSeq(s, 1, i - 1))
        /\ NoSpaceNoAt(SubSeq(s, i + 1, j - 1))
        /\ NoSpaceNoAt(SubSeq(s, j + 1, Len(s)))

\* /^[+]?[\d\s\-\(\)]{10,}$/.test(s)
phoneRegex(s) ==
    LET t == IF s # <<>> /\ s[1] = "+" THEN Tail(s) ELSE s
    IN  /\ Len(t) >= 10
        /\ \A i \in 1..Len(t) :
              t[i] \in DigitSet \cup Whitespace \cup {"-", "(", ")"}

NoFieldErrors == [name |-> Undefined, email |-> Undefined, phone |-> Undefined]

\* a faulty variant of validateForm: the name is not checked
validateFormIgnoresName(formData) ==
    LET errors ==
            [name |-> Undefined,
             email |-> IF Trim(formData.email) = <<>> THEN MsgEmailRequired
                       ELSE IF ~emailRegex(formData.email) THEN MsgEmailInvalid
                       ELSE Undefined,
             phone |-> IF Trim(formData.phone) = <<>> THEN MsgPhoneRequired
                       ELSE IF ~phoneRegex(RemoveWhitespace(formData.phone))
                       THEN MsgPhoneInvalid
                       ELSE Undefined]
    IN  [errors |-> errors, isValid |-> errors = NoFieldErrors]

\* validateForm(): the errors it passes to setFieldErrors and its result
validateForm(formData) ==
    LET errors ==
            [name |-> IF Trim(formData.name) = <<>> THEN MsgNameRequired
                      ELSE IF Len(Trim(formData.name)) < 2 THEN MsgNameTooShort
                      ELSE Undefined,
             email |-> IF Trim(formData.email) = <<>> THEN MsgEmailRequired
                       ELSE IF ~emailRegex(formData.email) THEN MsgEmailInvalid
                       ELSE Undefined,
             phone |-> IF Trim(formData.phone) = <<>> THEN MsgPhoneRequired
                       ELSE IF ~phoneRegex(RemoveWhitespace(formData.phone))
                       THEN MsgPhoneInvalid
                       ELSE Undefined]
    IN  [errors |-> errors, isValid |-> errors = NoFieldErrors]

EmptyForm == [name |-> <<>>, email |-> <<>>, phone |-> <<>>]

\* useState initial values of the modal; pc is the position of handleSubmit
InitModal ==
    [formData |-> EmptyForm, isLoading |-> FALSE, showSuccess |-> FALSE,
     error |-> Null, fieldErrors |-> NoFieldErrors, posts |-> 0, pc |-> "idle",
     auth |-> Undefined]

\* handleInputChange(field, value)
handleInputChange(field, value) ==
    /\ value \in InputsOf(field)
    /\ value # modal.formData[field]
    /\ modal' = [modal EXCEPT
                    !.formData[field] = value,
                    !.fieldErrors[field] = IF Truthy(@) THEN <<>> ELSE @,
                    !.error = Null]
    /\ UNCHANGED <<now, store, reloads, issued, calls, hooks, probe>>

\* the Authorization header of the POST of handleSubmit: its headers are
\* {'Content-Type': 'application/json'} only
PostHeaders(ls) == Undefined

\* handleSubmit() up to the fetch; auth is the Authorization header of the
\* POST
handleSubmit ==
    LET checked == validateForm(modal.formData)
        shown == [modal EXCEPT !.error = Null, !.fieldErrors = checked.errors]
    IN  /\ modal.posts < MaxPosts
        /\ modal' = IF ~checked.isValid \/ modal.isLoading THEN shown
                    ELSE [shown EXCEPT !.isLoading = TRUE, !.posts = @ + 1,
                                       !.pc = "fetch",
                                       !.auth = PostHeaders(store)]
        /\ UNCHANGED <<now, store, reloads, issued, calls, hooks, probe>>

\* the POST settles: rejected, 2xx, or a status whose body is awaited
PostResponse(s) ==
    /\ modal.pc = "fetch"
    /\ modal' =
          IF s = Rejected
          THEN [modal EXCEPT !.error = MsgFailedToFetch, !.isLoading = FALSE,
                             !.pc = "idle"]
          ELSE IF IsOk(s)
          THEN [modal EXCEPT !.showSuccess = TRUE, !.formData = EmptyForm,
                             !.isLoading = FALSE, !.pc = "idle"]
          ELSE [modal EXCEPT !.pc = "errorJson"]
    /\ UNCHANGED <<now, store, reloads, issued, calls, hooks, probe>>

\* response.json() of the error response settles: detail is Undefined when
\* the body has no detail or does not parse
PostErrorBody(detail) ==
    /\ modal.pc = "errorJson"
    /\ modal' = [modal EXCEPT
                    !.error = IF Truthy(detail) THEN detail ELSE MsgFailedToCreate,
                    !.isLoading = FALSE, !.pc = "idle"]
    /\ UNCHANGED <<now, store, reloads, issued, calls, hooks, probe>>

\* handleClose()
handleClose ==
    /\ ~modal.isLoading
    /\ modal # [InitModal EXCEPT !.posts = modal.posts]
    /\ modal' = [modal EXCEPT !.formData = EmptyForm, !.error = Null,
                              !.fieldErrors = NoFieldErrors,
                              !.showSuccess = FALSE]
    /\ UNCHANGED <<now, store, reloads, issued, calls, hooks, probe>>

----------------------------------------------------------------------------
(* Initial state *)

Init ==
    /\ now = 0
    /\ store = EmptyStorage
    /\ reloads = 0
    /\ issued = 0
    /\ calls = [c \in Calls |-> IdleCall]
    /\ hooks = [h \in Hooks |-> InitHook(h)]
    /\ probe = [fn |-> "none"]
    /\ modal = InitModal

----------------------------------------------------------------------------
(* Environment *)

\* a second passes
Tick ==
    /\ now < MaxTicks * MsPerSec
    /\ now' = now + MsPerSec
    /\ UNCHANGED <<store, reloads, issued, calls, hooks, probe, modal>>

\* the storage handleLogin leaves for a login response body
LoggedIn(ls, body, coach, t) ==
    setItem(setItem(setItem(setItem(ls,
        "access_token", body.access_token),
        "refresh_token", body.refresh_token),
        "coach", coach),
        "expires_at", String(NumPlus(Num(t), NumTimes(body.expires_in, Num(MsPerSec)))))

\* AuthPage.handleLogin: a successful login response arrives
Login(e) ==
    /\ issued < MaxIssued
    /\ issued' = issued + 1
    /\ store' = LoggedIn(store, TokenBody(issued + 1, e), CoachJson(issued + 1), now)
    /\ UNCHANGED <<now, reloads, calls, hooks, probe, modal>>

----------------------------------------------------------------------------
(* Hook operations *)

\* the body of a fetch hook's effect, run with filters f on hook state hk
RunEffect(h, f, hk) ==
    IF isAuthenticated(store, now)
    THEN \E c \in Calls :
            Invoke(c, h, f, [hooks EXCEPT ![h] = HookStarted(hk)])
    ELSE /\ hooks' = [hooks EXCEPT ![h] = HookNotAuthenticated(h, hk)]
         /\ UNCHANGED <<store, reloads, calls>>

\* the component using fetch hook h mounts: the effect runs for the first time
Mount(h) ==
    /\ hooks[h].mounted = "pending"
    /\ RunEffect(h, hooks[h].filters, [hooks[h] EXCEPT !.mounted = "yes"])
    /\ UNCHANGED <<now, issued, probe, modal>>

\* useStudents is rendered with other filters: the effect runs again
ChangeFilters(f) ==
    LET h == "useStudents"
    IN  /\ hooks[h].mounted = "yes"
        /\ f # hooks[h].filters
        /\ RunEffect(h, f, [hooks[h] EXCEPT !.filters = f])
        /\ UNCHANGED <<now, issued, probe, modal>>

\* the component using hook h is torn down
Unmount(h) ==
    /\ hooks[h].mounted = "yes"
    /\ hooks' = [hooks EXCEPT ![h].mounted = "gone"]
    /\ UNCHANGED <<now, store, reloads, issued, calls, probe, modal>>

\* createStudent(studentData) of useCreateStudent
CreateStudent ==
    LET h == "useCreateStudent"
    IN  /\ hooks[h].mounted = "yes"
        /\ \E c \in Calls :
              Invoke(c, h, NoFilters, [hooks EXCEPT ![h] = HookStarted(hooks[h])])
        /\ UNCHANGED <<now, issued, probe, modal>>

----------------------------------------------------------------------------
(* Gateway steps: one per network event *)

\* authenticatedFetch returns the response: makeAuthenticatedAPICall awaits
\* response.text() of a non-2xx response and response.json() of a 2xx one
AwaitBody(c, cr, status) ==
    /\ calls' = [calls EXCEPT ![c] =
                    [cr EXCEPT !.pc = IF IsOk(status) THEN "json" ELSE "text",
                               !.status = status]]
    /\ UNCHANGED <<store, reloads, hooks>>

\* a faulty variant of the failure path of refreshAuthToken: null is returned
\* without redirectToLogin()
RefreshFailedNoRedirect(c, cr, how) ==
    /\ UNCHANGED <<store, reloads>>
    /\ Settle(c, [cr EXCEPT !.refreshed = how, !.newToken = Null],
              FALSE, MsgAuthFailed, <<>>, hooks)

\* refreshAuthToken gives up: redirectToLogin(), return null; authenticatedFetch
\* then throws 'Authentication failed'
RefreshFailed(c, cr, how) ==
    /\ Redirect
    /\ Settle(c, [cr EXCEPT !.refreshed = how, !.newToken = Null],
              FALSE, MsgAuthFailed, <<>>, hooks)

\* the first fetch of authenticatedFetch settles with outcome s
FirstResponse(c, s) ==
    LET cr == [calls[c] EXCEPT !.first = s]
    IN  /\ calls[c].pc = "fetch1"
        /\ IF s = Rejected
           THEN /\ Settle(c, cr, FALSE, MsgFailedToFetch, <<>>, hooks)
                /\ UNCHANGED <<store, reloads>>
           ELSE IF s = 401
           THEN IF ~Truthy(getRefreshToken(store))
                THEN RefreshFailed(c, cr, "noToken")
                ELSE /\ calls' = [calls EXCEPT ![c] =
                                    [cr EXCEPT !.pc = "refresh", !.refreshes = @ + 1,
                                               !.refreshToken = getRefreshToken(store)]]
                     /\ UNCHANGED <<store, reloads, hooks>>
           ELSE AwaitBody(c, cr, s)
        /\ UNCHANGED <<now, issued, probe, modal>>

\* the fetch of the refresh endpoint settles with outcome s
RefreshResponse(c, s) ==
    /\ calls[c].pc = "refresh"
    /\ IF s = Rejected
       THEN RefreshFailed(c, calls[c], "rejected")
       ELSE IF ~IsOk(s)
       THEN RefreshFailed(c, calls[c], "status")
       ELSE /\ calls' = [calls EXCEPT ![c].pc = "refreshJson"]
            /\ UNCHANGED <<store, reloads, hooks>>
    /\ UNCHANGED <<now, issued, probe, modal>>

\* a faulty variant of the token update: the expiry is not written
RefreshedKeepsExpiry(ls, data, t) ==
    setItem(setItem(ls,
        "access_token", data.access_token),
        "refresh_token", data.refresh_token)

\* a faulty variant of the token update: only the access token is written
RefreshedAccessOnly(ls, data, t) ==
    setItem(ls, "access_token", data.access_token)

\* the storage refreshAuthToken leaves for a parsed refresh response body
Refreshed(ls, data, t) ==
    setItem(setItem(setItem(ls,
        "access_token", data.access_token),
        "refresh_token", data.refresh_token),
        "expires_at", String(NumPlus(Num(t), NumTimes(data.expires_in, Num(MsPerSec)))))

\* a faulty variant of the retry: after the refresh the first response is returned
\* and the request is not sent again
RetryNotSent(c, cr, ls) ==
    /\ calls' = [calls EXCEPT ![c] = [cr EXCEPT !.pc = "text", !.status = cr.first]]
    /\ UNCHANGED <<reloads, hooks>>

\* a faulty variant of the retry: the request is sent again and the call then
\* refreshes once more, as a recursive retry would on a second 401
RetryByRefreshing(c, cr, ls) ==
    /\ calls' = [calls EXCEPT ![c] =
                    [Sent(cr, ls) EXCEPT !.pc = "refresh", !.refreshes = @ + 1]]
    /\ UNCHANGED <<reloads, hooks>>

\* a faulty variant of the retry: it is sent with the headers built before the
\* refresh
RetryWithOldToken(c, cr, ls) ==
    /\ calls' = [calls EXCEPT ![c] = [cr EXCEPT !.sent = @ + 1, !.pc = "fetch2"]]
    /\ UNCHANGED <<reloads, hooks>>

\* the retry of authenticatedFetch, sent with the headers of storage ls
Retry(c, cr, ls) ==
    /\ calls' = [calls EXCEPT ![c] = [Sent(cr, ls) EXCEPT !.pc = "fetch2"]]
    /\ UNCHANGED <<reloads, hooks>>

\* response.json() of the refresh response settles with this body
RefreshBody(c, data) ==
    /\ calls[c].pc = "refreshJson"
    /\ IF ~data.parses
       THEN /\ RefreshFailed(c, calls[c], "unparsable")
            /\ UNCHANGED issued
       ELSE LET ls == Refreshed(store, data, now)
                newToken == data.access_token
            IN  /\ Truthy(newToken) => issued < MaxIssued
                /\ store' = ls
                /\ issued' = IF Truthy(newToken) THEN issued + 1 ELSE issued
                /\ IF Truthy(newToken)
                   THEN Retry(c, [calls[c] EXCEPT !.refreshed = "ok",
                                                  !.newToken = newToken], ls)
                   ELSE /\ Settle(c, [calls[c] EXCEPT !.refreshed = "noField",
                                                      !.newToken = newToken],
                                  FALSE, MsgAuthFailed, <<>>, hooks)
                        /\ UNCHANGED reloads
    /\ UNCHANGED <<now, probe, modal>>

\* the retried fetch settles with outcome s
RetryResponse(c, s) ==
    LET cr == [calls[c] EXCEPT !.retry = s]
    IN  /\ calls[c].pc = "fetch2"
        /\ IF s = Rejected
           THEN /\ Settle(c, cr, FALSE, MsgFailedToFetch, <<>>, hooks)
                /\ UNCHANGED <<store, reloads>>
           ELSE AwaitBody(c, cr, s)
        /\ UNCHANGED <<now, issued, probe, modal>>

\* response.text() of a non-2xx response settles with errorText
BodyText(c, errorText) ==
    LET cr == [calls[c] EXCEPT !.text = errorText]
    IN  /\ calls[c].pc = "text"
        /\ IF calls[c].status = 401
           THEN /\ Redirect
                /\ Settle(c, cr, FALSE, MsgAuthFailed, <<>>, hooks)
           ELSE /\ Settle(c, cr, FALSE, handleAuthError(calls[c].status, errorText),
                          <<>>, hooks)
                /\ UNCHANGED <<store, reloads>>
        /\ UNCHANGED <<now, issued, probe, modal>>

\* response.json() of a 2xx response resolves with n records
BodyJson(c, n) ==
    /\ calls[c].pc = "json"
    /\ Settle(c, calls[c], TRUE, Null,
              ServerRecords(ResourceOf(calls[c].hook), calls[c].filters, n), hooks)
    /\ UNCHANGED <<now, store, reloads, issued, probe, modal>>

\* a faulty variant of the rejected response.json(): the rejection is never
\* delivered and the call stays pending
BodyJsonNeverSettles(c) ==
    /\ calls[c].pc = "json"
    /\ calls' = [calls EXCEPT ![c].pc = "pending"]
    /\ UNCHANGED <<now, store, reloads, issued, hooks, probe, modal>>

\* response.json() of a 2xx response rejects with a SyntaxError
BodyJsonFails(c) ==
    /\ calls[c].pc = "json"
    /\ Settle(c, calls[c], FALSE, MsgJsonSyntax, <<>>, hooks)
    /\ UNCHANGED <<now, store, reloads, issued, probe, modal>>

\* the bodies a refresh response may carry
RefreshBodies ==
    {TokenBody(issued + 1, e) : e \in ExpiresIn} \cup {EmptyBody, UnparsableBody}

\* the network events of the gateway calls in flight
GatewayStep ==
    \/ \E c \in Calls, s \in Outcomes : FirstResponse(c, s)
    \/ \E c \in Calls, s \in Outcomes : RefreshResponse(c, s)
    \/ \E c \in Calls, data \in RefreshBodies : RefreshBody(c, data)
    \/ \E c \in Calls, s \in Outcomes : RetryResponse(c, s)
    \/ \E c \in Calls, t \in ErrorTexts : BodyText(c, t)
    \/ \E c \in Calls, n \in 0..MaxRecords : BodyJson(c, n)
    \/ \E c \in Calls : BodyJsonFails(c)

Environment ==
    \/ Tick
    \/ \E e \in ExpiresIn : Login(e)

\* a page whose only gateway client is the create-student form
Next ==
    \/ Environment
    \/ CreateStudent
    \/ Unmount("useCreateStudent")
    \/ GatewayStep

Spec == Init /\ [][Next]_vars

\* a page that lists students under changing filters
NextStudents ==
    \/ Environment
    \/ Mount("useStudents")
    \/ \E f \in FilterSets : ChangeFilters(f)
    \/ Unmount("useStudents")
    \/ GatewayStep

SpecStudents == Init /\ [][NextStudents]_vars

\* the same page when every network request eventually resolves or rejects
FairStudents == SpecStudents /\ WF_vars(GatewayStep)

\* a page that shows conversations and super coaches
NextFallback ==
    \/ Environment
    \/ \E h \in FallbackHooks : Mount(h)
    \/ \E h \in FallbackHooks : Unmount(h)
    \/ GatewayStep

SpecFallback == Init /\ [][NextFallback]_vars

\* a page with the create-student dialog
NextModal ==
    \/ \E field \in Fields, value \in NameInputs \cup EmailInputs \cup PhoneInputs :
          handleInputChange(field, value)
    \/ handleSubmit
    \/ \E s \in {Rejected, 200, 400} : PostResponse(s)
    \/ \E detail \in {Undefined, MsgEmailTaken} : PostErrorBody(detail)
    \/ handleClose
    \/ Environment

SpecModal == Init /\ [][NextModal]_vars

\* a page on which every fetch hook mounts
NextMounts ==
    \/ Environment
    \/ \E h \in FetchHooks : Mount(h)
    \/ GatewayStep

SpecMounts == Init /\ [][NextMounts]_vars

----------------------------------------------------------------------------
(* isAuthenticated on its own, over every content of the session store *)

\* what the expires_at key may hold: nothing, the string of a number, or text
\* that is no number
ExpiryInputs ==
    {[kind |-> "absent", v |-> 0], [kind |-> "empty", v |-> 0],
     [kind |-> "NaN", v |-> 0]}
        \cup {[kind |-> "number", v |-> n] : n \in {0, 999, 1000, 1001, 2000}}
ExpiryString(e) ==
    CASE e.kind = "absent" -> Null
      [] e.kind = "empty" -> <<>>
      [] e.kind = "NaN" -> StrNaN
      [] OTHER -> String(Num(e.v))
TokenInputs(token) == {Null, <<>>, token}

InitValid ==
    /\ now \in {i * MsPerSec : i \in 0..MaxTicks}
    /\ \E a \in TokenInputs(AccessTokenOf(1)), r \in TokenInputs(RefreshTokenOf(1)),
          e \in ExpiryInputs :
            /\ store = [EmptyStorage EXCEPT !["access_token"] = a,
                                            !["refresh_token"] = r,
                                            !["expires_at"] = ExpiryString(e)]
            /\ probe = [fn |-> "input", access |-> a, refresh |-> r, expiry |-> e,
                        out |-> FALSE]
    /\ reloads = 0
    /\ issued = 0
    /\ calls = [c \in Calls |-> IdleCall]
    /\ hooks = [h \in Hooks |-> InitHook(h)]
    /\ modal = InitModal

\* isAuthenticated() is called
CheckSession ==
    /\ probe.fn = "input"
    /\ probe' = [probe EXCEPT !.fn = "isAuthenticated",
                              !.out = isAuthenticated(store, now)]
    /\ UNCHANGED <<now, store, reloads, issued, calls, hooks, modal>>

SpecValid == InitValid /\ [][CheckSession]_vars

----------------------------------------------------------------------------
(* The URL of the students request on its own, over every filter combination *)

CourseIdInputs == {NoNum, CourseId(0), CourseId(1), CourseId(12)}
StatusInputs == {Undefined, <<>>, StatusStuck, StatusNew}
SearchInputs == {Undefined, <<>>, SearchAmpersand, SearchSpace}

InitUrl ==
    /\ now = 0
    /\ store = EmptyStorage
    /\ reloads = 0
    /\ issued = 0
    /\ calls = [c \in Calls |-> IdleCall]
    /\ hooks = [h \in Hooks |-> InitHook(h)]
    /\ modal = InitModal
    /\ \E ci \in CourseIdInputs, st \in StatusInputs, se \in SearchInputs :
          probe = [fn |-> "filters",
                   filters |-> [course_id |-> ci, status |-> st, search |-> se],
                   out |-> <<>>]

\* fetchStudents builds its URL
BuildUrl ==
    /\ probe.fn = "filters"
    /\ probe' = [probe EXCEPT !.fn = "StudentsUrl",
                              !.out = StudentsUrl(probe.filters)]
    /\ UNCHANGED <<now, store, reloads, issued, calls, hooks, modal>>

SpecUrl == InitUrl /\ [][BuildUrl]_vars

----------------------------------------------------------------------------
(* handleAuthError on its own, over the non-2xx statuses *)

TextTokenExpired ==
    <<"t", "o", "k", "e", "n", " ", "e", "x", "p", "i", "r", "e", "d">>

TextInvalidToken ==
    <<"i", "n", "v", "a", "l", "i", "d", " ", "t", "o", "k", "e", "n">>

\* the statuses and error bodies handleAuthError is applied to
StatusInputs5xx == {500, 501, 502, 503, 504, 599}
StatusCodeInputs == {304, 400, 401, 403, 404, 418, 429} \cup StatusInputs5xx
ErrorTextInputs == {<<>>, TextStudentNotFound, TextTokenExpired, TextInvalidToken}

InitStatus ==
    /\ now = 0
    /\ store = EmptyStorage
    /\ reloads = 0
    /\ issued = 0
    /\ calls = [c \in Calls |-> IdleCall]
    /\ hooks = [h \in Hooks |-> InitHook(h)]
    /\ modal = InitModal
    /\ \E st \in StatusCodeInputs, text \in ErrorTextInputs :
          probe = [fn |-> "response", status |-> st, text |-> text, out |-> <<>>]

\* throw handleAuthError(response.status, errorText)
MapStatus ==
    /\ probe.fn = "response"
    /\ probe' = [probe EXCEPT !.fn = "handleAuthError",
                              !.out = handleAuthError(probe.status, probe.text)]
    /\ UNCHANGED <<now, store, reloads, issued, calls, hooks, modal>>

SpecStatus == InitStatus /\ [][MapStatus]_vars

----------------------------------------------------------------------------
(* Storing a session and reading it back *)

\* the token strings and lifetimes (in seconds; 1.0005 is 10005 / 10^4) a
\* login response may carry
TokenStrings == {<<"a", "1">>, <<>>, <<" ", "x">>}
ExpiresInInputs == {Num(1), Num(0), Num(-1), Dec(10005, 4), NaN}

InitRoundTrip ==
    /\ now \in {i * MsPerSec : i \in 0..MaxTicks}
    /\ store = EmptyStorage
    /\ reloads = 0
    /\ issued = 0
    /\ calls = [c \in Calls |-> IdleCall]
    /\ hooks = [h \in Hooks |-> InitHook(h)]
    /\ modal = InitModal
    /\ \E a \in TokenStrings, r \in TokenStrings, e \in ExpiresInInputs :
          probe = [fn |-> "login",
                   body |-> [access_token |-> a, refresh_token |-> r,
                             expires_in |-> e],
                   set |-> NaN, access |-> Null, refresh |-> Null,
                   expiry |-> NaN]

\* handleLogin stores the session; set is the expiry value it computes
StoreSession ==
    /\ probe.fn = "login"
    /\ store' = LoggedIn(store, probe.body, CoachJson(1), now)
    /\ probe' = [probe EXCEPT
                    !.fn = "stored",
                    !.set = NumPlus(Num(now),
                                    NumTimes(probe.body.expires_in, Num(MsPerSec)))]
    /\ UNCHANGED <<now, reloads, issued, calls, hooks, modal>>

\* getAuthToken(), getRefreshToken() and the expiry as isAuthenticated reads it
ReadSession ==
    /\ probe.fn = "stored"
    /\ probe' = [probe EXCEPT
                    !.fn = "read",
                    !.access = getAuthToken(store),
                    !.refresh = getRefreshToken(store),
                    !.expiry = parseInt(getItem(store, "expires_at"))]
    /\ UNCHANGED <<now, store, reloads, issued, calls, hooks, modal>>

NextRoundTrip ==
    \/ StoreSession
    \/ ReadSession

SpecRoundTrip == InitRoundTrip /\ [][NextRoundTrip]_vars

----------------------------------------------------------------------------
(* Claims *)

Done(c) == calls[c].pc = "done"
Failed(c, msg) == calls[c].result = "error" /\ calls[c].msg = msg
\* call c settles in this step
Settles(c) == calls[c].pc # "done" /\ calls'[c].pc = "done"

\* the result makeAuthenticatedAPICall gives for a final response with this
\* status, written out message by message
ReturnsOutcomeOf(c, status) ==
    CASE status = Rejected ->
            Failed(c, <<"F", "a", "i", "l", "e", "d", " ", "t", "o", " ",
                        "f", "e", "t", "c", "h">>)
      [] status = 200 -> calls[c].result = "ok" \/ Failed(c, MsgJsonSyntax)
      [] status = 401 -> Failed(c, MsgAuthFailed)
      [] status = 404 -> Failed(c, MsgNotFound)
      [] status = 400 ->
            Failed(c, MsgRequestFailed \o <<"4", "0", "0", ".", " ">> \o calls[c].text)
      [] OTHER -> FALSE

\* C1: a call whose first response is 401 and whose refresh succeeds sends
\* exactly two requests to its URL, the original and one retry, and ends with
\* the outcome of the retry.
C1_RetryOnceAfterRefresh ==
    \A c \in Calls :
        (Done(c) /\ calls[c].first = 401 /\ calls[c].refreshed = "ok")
            => /\ calls[c].sent = 2
               /\ calls[c].retry # NoStatus
               /\ ReturnsOutcomeOf(c, calls[c].retry)

C1_Witness ==
    \E c \in Calls :
        /\ Done(c) /\ calls[c].first = 401 /\ calls[c].refreshed = "ok"
        /\ calls[c].retry = 200 /\ calls[c].result = "ok" /\ calls[c].sent = 2

\* C2: when the first response is 401 and the refresh fails, the step in which
\* the call fails has sent exactly one request and no retry, leaves all four
\* keys of the session store removed, and fails with 'Authentication failed'.
C2_RefreshFailureClearsSession ==
    [][\A c \in Calls :
          (Settles(c) /\ calls'[c].first = 401
                /\ calls'[c].refreshed \notin {"none", "ok"})
             => /\ calls'[c].sent = 1
                /\ calls'[c].retry = NoStatus
                /\ store' = [k \in Keys |-> Null]
                /\ calls'[c].result = "error"
                /\ calls'[c].msg = MsgAuthFailed]_vars

\* C3: whatever the server answers, a call performs at most one refresh and
\* sends at most two requests to its URL, and a call that retried ends with
\* the outcome of the retried request, a 401 included.
C3_AtMostOneRefresh ==
    \A c \in Calls :
        /\ calls[c].refreshes <= 1
        /\ calls[c].sent <= 2
        /\ (Done(c) /\ calls[c].retry # NoStatus)
              => /\ calls[c].refreshes = 1
                 /\ calls[c].sent = 2
                 /\ ReturnsOutcomeOf(c, calls[c].retry)

C3_Witness ==
    \E c \in Calls :
        /\ Done(c) /\ calls[c].first = 401 /\ calls[c].retry = 401
        /\ calls[c].refreshes = 1 /\ calls[c].sent = 2

NonEmpty(v) == v # Null /\ Len(v) > 0

C5_InvalidSessionRedirects ==
    [][\A c \in Calls :
          (calls[c].pc = "idle" /\ calls'[c].pc # "idle" /\ ~isAuthenticated(store, now))
             => /\ store' = [k \in Keys |-> Null]
                /\ reloads' = reloads + 1
                /\ calls'[c].pc = "done"
                /\ calls'[c].sent = 0
                /\ calls'[c].result = "error"
                /\ calls'[c].msg = MsgAuthRequired]_vars

C5_Witness ==
    \E c \in Calls :
        /\ Done(c) /\ calls[c].sent = 0 /\ Failed(c, MsgAuthRequired)
        /\ store = EmptyStorage /\ reloads = 1
        /\ hooks[calls[c].hook].error = MsgAuthRequired

\* the React state of the students list
Students == hooks["useStudents"]

\* both calls of the students hook have settled and the component is mounted
BothSettled ==
    /\ Done(1) /\ Done(2)
    /\ calls[1].hook = "useStudents" /\ calls[2].hook = "useStudents"
    /\ Students.lateSets = 0

\* C6: when the students hook fetched for filters F1 and then for other
\* filters F2 (call 2 is the later one) and both requests succeeded, in
\* whatever order they resolved, data is the result of F2.
C6_LastRequestWins ==
    (BothSettled /\ calls[1].filters # calls[2].filters
        /\ calls[1].result = "ok" /\ calls[2].result = "ok")
        => /\ ~Students.data.isNull
           /\ Len(Students.data.items) = Len(calls[2].payload)
           /\ \A i \in 1..Len(Students.data.items) :
                 Students.data.items[i].matched = calls[2].filters.status

\* C7: once the later request of the students hook has succeeded and both
\* requests have resolved, error is null and loading is false, whatever the
\* superseded request answered.
C7_StaleResponseLeavesErrorAndLoading ==
    (BothSettled /\ calls[2].result = "ok")
        => Students.error = Null /\ Students.loading = FALSE

\* C8: no state setter of a hook is called after its component unmounted.
C8_NoSetStateAfterUnmount ==
    \A h \in Hooks : hooks[h].lateSets = 0

\* the built-in dataset of a fallback hook, hook by hook
BuiltIn(h) ==
    CASE h = "useConversations" -> [isNull |-> FALSE, items |-> mockConversations]
      [] h = "useSuperCoaches" -> [isNull |-> FALSE, items |-> mockSuperCoaches]

\* C9: a 404 answer to the request of useConversations or useSuperCoaches
\* leaves the hook with its built-in dataset as data, error null and loading
\* false.
C9_NotFoundFallsBack ==
    \A c \in Calls :
        (Done(c) /\ calls[c].hook \in {"useConversations", "useSuperCoaches"}
            /\ calls[c].status = 404 /\ hooks[calls[c].hook].lateSets = 0)
            => /\ hooks[calls[c].hook].data = BuiltIn(calls[c].hook)
               /\ hooks[calls[c].hook].error = Null
               /\ hooks[calls[c].hook].loading = FALSE

C9_Witness ==
    \E c, d \in Calls :
        /\ Done(c) /\ calls[c].hook = "useConversations" /\ calls[c].first = 404
        /\ hooks["useConversations"].data.items = mockConversations
        /\ hooks["useConversations"].error = Null
        /\ Done(d) /\ calls[d].hook = "useSuperCoaches" /\ calls[d].retry = 404
        /\ hooks["useSuperCoaches"].data.items = mockSuperCoaches
        /\ hooks["useSuperCoaches"].error = Null

\* C10: a failure of the request of a fallback hook that is not an HTTP 404
\* does not put the built-in dataset into data, and sets error to the
\* failure message.
C10_FallbackOnlyOnNotFound ==
    \A c \in Calls :
        (Done(c) /\ calls[c].hook \in {"useConversations", "useSuperCoaches"}
            /\ calls[c].result = "error" /\ calls[c].status # 404
            /\ hooks[calls[c].hook].lateSets = 0)
            => /\ hooks[calls[c].hook].data # BuiltIn(calls[c].hook)
               /\ hooks[calls[c].hook].error = calls[c].msg

\* C11: in the step in which a fetch of the students hook fails, data is left
\* as it was, error becomes the failure message and loading becomes false.
C11_FailureKeepsData ==
    [][\A c \in Calls :
          (Settles(c) /\ calls'[c].result = "error"
                /\ calls'[c].hook = "useStudents" /\ Students.mounted = "yes")
             => /\ hooks'["useStudents"].data = Students.data
                /\ hooks'["useStudents"].error = calls'[c].msg
                /\ hooks'["useStudents"].loading = FALSE]_vars

C11_Witness ==
    /\ BothSettled
    /\ calls[1].result = "ok" /\ Len(calls[1].payload) = 1
    /\ calls[2].result = "error" /\ calls[2].status = 400
    /\ ~Students.data.isNull /\ Len(Students.data.items) = 1
    /\ Students.error = calls[2].msg
    /\ Students.loading = FALSE

\* C12: the step in which a fetch hook starts a request leaves loading true
\* and error null, and the step in which the request succeeds with N records
\* leaves data holding the N mapped records, loading false and error null.
C12_FetchLifecycle ==
    [][\A c \in Calls :
          /\ (calls[c].pc = "idle" /\ calls'[c].pc = "fetch1"
                 /\ calls'[c].hook = "useStudents")
                => /\ hooks'["useStudents"].loading = TRUE
                   /\ hooks'["useStudents"].error = Null
          /\ (Settles(c) /\ calls'[c].result = "ok"
                 /\ calls'[c].hook = "useStudents" /\ Students.mounted = "yes")
                => /\ ~hooks'["useStudents"].data.isNull
                   /\ Len(hooks'["useStudents"].data.items) = Len(calls'[c].payload)
                   /\ \A i \in 1..Len(calls'[c].payload) :
                         /\ hooks'["useStudents"].data.items[i].id = calls'[c].payload[i].id
                         /\ hooks'["useStudents"].data.items[i].enrolledCourses = <<>>
                   /\ hooks'["useStudents"].loading = FALSE
                   /\ hooks'["useStudents"].error = Null]_vars

KeyCourseId ==
    <<"c", "o", "u", "r", "s", "e", "_", "i", "d">>

KeyStatus ==
    <<"s", "t", "a", "t", "u", "s">>

KeySearch ==
    <<"s", "e", "a", "r", "c", "h">>

UrlStatusStuck ==
    <<"h", "t", "t", "p", ":", "/", "/", "l", "o", "c", "a", "l", "h", "o",
      "s", "t", ":", "3", "1", "0", "0", "/", "a", "p", "i", "/", "s", "t",
      "u", "d", "e", "n", "t", "s", "?", "s", "t", "a", "t", "u", "s", "=",
      "s", "t", "u", "c", "k">>

UrlNoQuery ==
    <<"h", "t", "t", "p", ":", "/", "/", "l", "o", "c", "a", "l", "h", "o",
      "s", "t", ":", "3", "1", "0", "0", "/", "a", "p", "i", "/", "s", "t",
      "u", "d", "e", "n", "t", "s">>

UrlAllThree ==
    <<"h", "t", "t", "p", ":", "/", "/", "l", "o", "c", "a", "l", "h", "o",
      "s", "t", ":", "3", "1", "0", "0", "/", "a", "p", "i", "/", "s", "t",
      "u", "d", "e", "n", "t", "s", "?", "c", "o", "u", "r", "s", "e", "_",
      "i", "d", "=", "1", "2", "&", "s", "t", "a", "t", "u", "s", "=", "n",
      "e", "w", "&", "s", "e", "a", "r", "c", "h", "=", "a", "%", "2", "6",
      "b">>

\* the position of the first ch in s, or 0
RECURSIVE IndexOf(_, _, _)
IndexOf(s, ch, i) ==
    IF i > Len(s) THEN 0
    ELSE IF s[i] = ch THEN i
    ELSE IndexOf(s, ch, i + 1)

\* the pieces of s between occurrences of ch
RECURSIVE SplitOn(_, _)
SplitOn(s, ch) ==
    LET i == IndexOf(s, ch, 1)
    IN  IF i = 0 THEN <<s>>
        ELSE <<SubSeq(s, 1, i - 1)>> \o SplitOn(SubSeq(s, i + 1, Len(s)), ch)

\* the name=value pieces of the query string of url; none without a '?'
QueryPieces(url) ==
    LET q == IndexOf(url, "?", 1)
    IN  IF q = 0 THEN <<>> ELSE SplitOn(SubSeq(url, q + 1, Len(url)), "&")

\* the name of a name=value piece
PieceName(piece) == SubSeq(piece, 1, IndexOf(piece, "=", 1) - 1)

\* the parameter names of url, in order
ParamNames(url) ==
    [i \in 1..Len(QueryPieces(url)) |-> PieceName(QueryPieces(url)[i])]

\* the names, in the order the hook considers them, of the filters chosen by
\* the three flags
NamesWhere(hasCourse, hasStatus, hasSearch) ==
    (IF hasCourse THEN <<KeyCourseId>> ELSE <<>>)
    \o (IF hasStatus THEN <<KeyStatus>> ELSE <<>>)
    \o (IF hasSearch THEN <<KeySearch>> ELSE <<>>)

\* C13 as stated: the URL has a query parameter for exactly the filters that
\* are supplied (not omitted and not undefined), joined with '&', and no
\* query string when no filter is supplied.
C13_ParamsForSuppliedFilters ==
    probe.fn = "StudentsUrl"
        => LET f == probe.filters
               supplied == NamesWhere(f.course_id.def, f.status # Undefined,
                                      f.search # Undefined)
           IN  /\ ParamNames(probe.out) = supplied
               /\ supplied = <<>> => probe.out = UrlNoQuery

\* C13 as amended: the URL has a query parameter for exactly the filters
\* whose value is truthy (a course_id other than 0, a non-empty status, a
\* non-empty search), joined with '&'; a filter that is omitted, undefined, 0
\* or the empty string has no parameter, and with no truthy filter there is
\* no query string.  Filters {status: "stuck"} give ...students?status=stuck.
C13_ParamsForTruthyFilters ==
    probe.fn = "StudentsUrl"
        => LET f == probe.filters
               given == NamesWhere(f.course_id.def /\ f.course_id.v # 0,
                                   f.status \notin {Undefined, <<>>},
                                   f.search \notin {Undefined, <<>>})
           IN  /\ ParamNames(probe.out) = given
               /\ given = <<>> => probe.out = UrlNoQuery
               /\ f = [course_id |-> [def |-> FALSE, v |-> 0],
                       status |-> <<"s", "t", "u", "c", "k">>,
                       search |-> Undefined]
                     => probe.out = UrlStatusStuck

C13_Witness ==
    /\ probe.fn = "StudentsUrl"
    /\ probe.filters.course_id = [def |-> TRUE, v |-> 12]
    /\ probe.filters.status = <<"n", "e", "w">>
    /\ probe.filters.search = <<"a", "&", "b">>
    /\ probe.out = UrlAllThree

\* C14: a POST to the students endpoint is sent only in a submit whose form
\* passes validation: the name has two characters or more once trimmed, the
\* email is a@b.com and the phone is 5551234567, the only values among those
\* typed that are valid; a submit with an empty name sends nothing.
C14_NoRequestWithoutValidForm ==
    [][/\ modal'.posts > modal.posts
            => /\ modal.formData.name \notin {<<>>, <<" ">>, <<"A">>}
               /\ modal.formData.email = <<"a", "@", "b", ".", "c", "o", "m">>
               /\ modal.formData.phone =
                     <<"5", "5", "5", "1", "2", "3", "4", "5", "6", "7">>
               /\ modal'.fieldErrors = NoFieldErrors
       /\ modal.formData.name = <<>> => modal'.posts = modal.posts]_vars

C14_Witness ==
    /\ modal.formData.name = <<>>
    /\ modal.formData.email = <<"a", "@", "b", ".", "c", "o", "m">>
    /\ modal.formData.phone = <<"5", "5", "5", "1", "2", "3", "4", "5", "6", "7">>
    /\ modal.fieldErrors.name = MsgNameRequired
    /\ modal.fieldErrors.email = Undefined
    /\ modal.posts = 0
    /\ modal.pc = "idle"

\* C15: when a call's first response is 401 and the stored refresh token is
\* absent, that step clears the session store, requests the reload, has
\* refreshAuthToken return null and sends no request to the refresh endpoint;
\* the no-token result arises in no other way.
C15_NoRefreshTokenRedirects ==
    [][\A c \in Calls :
          /\ (calls[c].pc = "fetch1" /\ calls'[c].pc # "fetch1"
                 /\ calls'[c].first = 401
                 /\ store["refresh_token"] \in {Null, <<>>})
                => /\ calls'[c].refreshed = "noToken"
                   /\ calls'[c].newToken = Null
                   /\ calls'[c].refreshes = 0
                   /\ calls'[c].pc = "done"
                   /\ store' = [k \in Keys |-> Null]
                   /\ reloads' = reloads + 1
          /\ (calls[c].refreshed # "noToken" /\ calls'[c].refreshed = "noToken")
                => store["refresh_token"] \in {Null, <<>>}]_vars

C15_Witness ==
    \E c \in Calls :
        /\ Done(c) /\ calls[c].first = 401 /\ calls[c].refreshed = "noToken"
        /\ calls[c].refreshes = 0 /\ calls[c].newToken = Null
        /\ store = EmptyStorage /\ reloads = 2

\* C16: the step in which a refresh response with the token fields is parsed
\* leaves in the store the access token and the refresh token of that
\* response and the expiry now + expires_in * 1000, leaves the coach as it
\* was, and has refreshAuthToken return the new access token.
C16_RefreshOverwritesTokens ==
    [][\A c \in Calls :
          (calls[c].pc = "refreshJson" /\ calls'[c].refreshed = "ok")
             => /\ issued' = issued + 1
                /\ store'["access_token"] = <<"a">> \o NatToStr(issued')
                /\ store'["refresh_token"] = <<"r">> \o NatToStr(issued')
                /\ \E e \in ExpiresIn :
                      store'["expires_at"] = NatToStr(now + e * 1000)
                /\ store'["coach"] = store["coach"]
                /\ calls'[c].newToken = <<"a">> \o NatToStr(issued')]_vars

C16_Witness ==
    \E c \in Calls :
        /\ calls[c].refreshed = "ok" /\ calls[c].pc = "fetch2"
        /\ now = 1000
        /\ store["access_token"] = <<"a", "2">>
        /\ store["refresh_token"] = <<"r", "2">>
        /\ store["expires_at"] = <<"2", "0", "0", "0">>
        /\ calls[c].newToken = <<"a", "2">>

\* C17: the step in which the refresh request fails (rejected, a non-2xx
\* status, an unparsable body, or a body without the token fields) clears the
\* session store, requests the reload and has refreshAuthToken return no
\* token.
C17_RefreshFailureRedirects ==
    [][\A c \in Calls :
          (calls[c].refreshed = "none"
                /\ calls'[c].refreshed \in {"rejected", "status", "unparsable", "noField"})
             => /\ store' = [k \in Keys |-> Null]
                /\ reloads' = reloads + 1
                /\ calls'[c].newToken \in {Null, Undefined}
                /\ calls'[c].sent = 1]_vars

\* C18: a retry carries the access token of the refresh response that
\* preceded it, and a first attempt carries the access token that is in the
\* store when it is sent, whatever other calls are in flight.
C18_RequestsCarryCurrentToken ==
    [][\A c \in Calls :
          /\ (calls[c].pc = "refreshJson" /\ calls'[c].pc = "fetch2")
                => /\ calls'[c].auth = <<"a">> \o NatToStr(issued')
                   /\ calls'[c].auth = calls'[c].newToken
          /\ (calls[c].pc = "idle" /\ calls'[c].pc = "fetch1")
                => /\ calls'[c].auth = store["access_token"]
                   /\ calls'[c].auth \notin {Null, Undefined, <<>>}]_vars

C18_Witness ==
    \E c, d \in Calls :
        /\ calls[c].pc = "fetch2" /\ calls[c].auth = <<"a", "2">>
        /\ calls[c].newToken = <<"a", "2">>
        /\ calls[d].pc = "fetch1" /\ calls[d].auth = <<"a", "1">>

\* the expiry strings a response written at some instant up to now produces
ExpiryStrings ==
    {NatToStr(i * 1000 + e * 1000) : i \in 0..(now \div 1000), e \in ExpiresIn}

RefreshGen(c) ==
    CHOOSE g \in 0..issued :
        \/ calls[c].newToken = <<"a">> \o NatToStr(g)
        \/ g = 0 /\ \A k \in 1..issued : calls[c].newToken # <<"a">> \o NatToStr(k)

\* C20: when two calls both got a 401 and each sent a refresh request with
\* the same refresh token, then once both calls have finished, a refresh has
\* succeeded, no token was issued after it and no retry was answered 401, the
\* store holds the tokens of the most recent successful refresh.
C20_LastSuccessfulRefreshStands ==
    (/\ Done(1) /\ Done(2)
     /\ calls[1].first = 401 /\ calls[2].first = 401
     /\ calls[1].refreshes = 1 /\ calls[2].refreshes = 1
     /\ calls[1].refreshToken = calls[2].refreshToken
     /\ \E c \in Calls : calls[c].refreshed = "ok"
     /\ \A c \in Calls : calls[c].refreshed # "noField" /\ calls[c].retry # 401
     /\ \E c \in Calls : RefreshGen(c) = issued)
        => /\ store["access_token"] = <<"a">> \o NatToStr(issued)
           /\ store["refresh_token"] = <<"r">> \o NatToStr(issued)

\* C21: every step in which a hook or a gateway call reports an
\* authentication-required outcome ('Authentication required' or
\* 'Authentication failed') clears the session store and requests the reload.
C21_AuthRequiredAlwaysRedirects ==
    [][/\ \A h \in Hooks :
             (hooks'[h].error \in {MsgAuthRequired, MsgAuthFailed}
                 /\ hooks'[h].error # hooks[h].error)
                => /\ store' = [k \in Keys |-> Null]
                   /\ reloads' = reloads + 1
       /\ \A c \in Calls :
             (Settles(c) /\ calls'[c].msg \in {MsgAuthRequired, MsgAuthFailed})
                => /\ store' = [k \in Keys |-> Null]
                   /\ reloads' = reloads + 1]_vars

\* the state of the create-student hook
Creator == hooks["useCreateStudent"]

C23_PostsGoThroughGateway ==
    [][/\ modal'.posts > modal.posts
            => /\ isAuthenticated(store, now)
               /\ modal'.auth = store["access_token"]
       /\ \A c \in Calls :
             (calls'[c].sent > calls[c].sent /\ calls'[c].hook = "useCreateStudent")
                => calls'[c].auth = store'["access_token"]]_vars

\* C24: the message of a failed request is that of its status class: 403
\* Forbidden, 404 NotFound, 429 RateLimited and every status from 500 through
\* 599 ServerError.
C24_StatusClassMessages ==
    probe.fn = "handleAuthError"
        => /\ probe.status = 403 => probe.out = MsgForbidden
           /\ probe.status = 404 => probe.out = MsgNotFound
           /\ probe.status = 429 => probe.out = MsgRateLimited
           /\ (probe.status >= 500 /\ probe.status <= 599)
                 => probe.out = MsgServerError

C26_LoadingWhileUnresolved ==
    \A c \in Calls :
        (calls[c].hook = "useStudents" /\ calls[c].pc \notin {"idle", "done"}
            /\ Students.mounted = "yes")
            => Students.loading = TRUE

\* C27: the four keys of the session store are all present or all absent.
C27_StoreAllOrNothing ==
    \/ \A k \in {"access_token", "refresh_token", "coach", "expires_at"} :
          store[k] = Null
    \/ \A k \in {"access_token", "refresh_token", "coach", "expires_at"} :
          store[k] # Null

C29_RefreshOnlyAfter401 ==
    [][\A c \in Calls :
          /\ calls'[c].refreshes > calls[c].refreshes
                => /\ calls[c].pc = "fetch1"
                   /\ calls'[c].first = 401
                   /\ calls[c].sent = 1
                   /\ calls'[c].pc = "refresh"
          /\ (calls[c].pc = "idle" /\ calls'[c].pc # "idle"
                 /\ store["expires_at"] # Null
                 /\ ~NumLt(Num(now), parseInt(store["expires_at"])))
                => /\ calls'[c].refreshes = 0
                   /\ calls'[c].sent = 0
                   /\ calls'[c].pc = "done"
                   /\ store' = [k \in Keys |-> Null]
                   /\ reloads' = reloads + 1]_vars

C29_Witness ==
    /\ Done(1) /\ calls[1].sent = 0 /\ calls[1].refreshes = 0
    /\ Failed(1, MsgAuthRequired)
    /\ calls[2].pc = "idle"
    /\ issued = 1 /\ now = 1000 /\ reloads = 1
    /\ store = EmptyStorage

\* C30: when every network request eventually resolves or rejects, every
\* request the students hook starts is eventually finished, and the mounted
\* hook then has loading false.
C30_FetchesFinish ==
    \A c \in Calls :
        (calls[c].pc \notin {"idle", "done"})
            ~> (calls[c].pc = "done"
                   /\ (Students.mounted = "gone" \/ Students.loading = FALSE))

C30_Witness ==
    /\ Done(1) /\ Done(2)
    /\ calls[1].hook = "useStudents" /\ calls[2].hook = "useStudents"
    /\ calls[1].refreshed = "ok" /\ calls[1].result = "ok"
    /\ calls[2].first = 0
    /\ Students.mounted = "yes" /\ Students.loading = FALSE

====
